---- MODULE Spec2Model ----
(***************************************************************************)
(* The request-admission gate of the design-comparison service             *)
(* (GeminiService in src/gemini_service.py) and the HTTP handlers of       *)
(* src/main.py that drive it.                                              *)
(*                                                                         *)
(* Time is an integer count of time units.  The two ceilings and the two   *)
(* window lengths are scaled down from the source's 15 / 1500 / 1 minute / *)
(* 1 day so that every ceiling, the window slide and the daily rollover    *)
(* are all reached; every formula below is written against the names, not  *)
(* the scaled values.  The clock (datetime.now()) is taken to be monotone, *)
(* and the two reads of it in one admitted call (gemini_service.py 20 and  *)
(* 68, with no I/O between them) to return the same instant.               *)
(*                                                                         *)
(* Scheduling: every handler of src/main.py is an `async def` run by one   *)
(* asyncio event loop.  A handler is suspended only at an `await` that     *)
(* really yields; /analyze has two (the reads of the uploads, main.py      *)
(* 81-82), /analyze-urls and /rate-limit have none, and                    *)
(* GeminiService.analyze_design_changes has none (generate_content is a    *)
(* blocking call).  So an admission request is first in flight (queued on  *)
(* the loop, or suspended in its reads) while other requests run, and then *)
(* runs from validation to its response as one step.  /analyze and         *)
(* /analyze-urls run the same code from validation on (main.py 84-121 and  *)
(* 146-184) and are one action each way.                                   *)
(***************************************************************************)
EXTENDS Integers, Sequences, FiniteSets, TLC

\* config.REQUESTS_PER_MINUTE (15 in the source), scaled.
REQUESTS_PER_MINUTE == 2
\* config.REQUESTS_PER_DAY (1500 in the source), scaled.
REQUESTS_PER_DAY == 4
\* timedelta(minutes=1), in time units.
MINUTE == 2
\* One day (timedelta.days counts whole days), in time units.
DAY == 6
\* The clock stops advancing here: one instant into the second day.
MaxClock == DAY + 1
\* Requests that can be in flight at once: a burst one over the per-minute
\* ceiling.
NumCallers == REQUESTS_PER_MINUTE + 1
\* Requests served over a whole run: enough to exhaust the daily ceiling, be
\* denied and be admitted again after the rollover.
MaxRequests == REQUESTS_PER_DAY + 2

Callers == 1..NumCallers

DailyMsg == "Daily API limit reached. Please try again tomorrow."
MinuteMsg == "Rate limit exceeded. Please wait a minute."
ParseMsg == "Failed to parse AI response"
FailedMsg == "Analysis failed"
InvalidMsg == "validation failed"
NoError == "None"

\* What the external generation call can do (gemini_service.py 116-188).
Upstream == {"ok", "badjson", "raises"}

VARIABLES
    clock,           \* datetime.now()
    request_times,   \* GeminiService.request_times
    daily_requests,  \* GeminiService.daily_requests
    last_reset,      \* GeminiService.last_reset
    pc,              \* per request slot: "idle" or "pending"
    served,          \* admission attempts made so far
    peak,            \* most valid requests ever in flight at once
    admissions,      \* log of the admitted calls, in the order they ran
    last             \* the response most recently sent

gate == <<request_times, daily_requests, last_reset>>
vars == <<clock, request_times, daily_requests, last_reset, pc, served,
          peak, admissions, last>>

NoResp == [status |-> 0, error |-> NoError, api |-> FALSE, now |-> 0]

\* The number of valid requests in flight towards the gate under p.
InFlight(p) == Cardinality({c \in Callers : p[c] = "pending"})

\* Mutant of Days: the day that has just completed is not counted.
DaysLate(delta) == (delta - 1) \div DAY

\* (now - self.last_reset).days
Days(delta) == delta \div DAY

\* Mutant of Recent: an entry exactly one minute old is kept (>= for >).
RecentInclusive(times, now) ==
    LET minute_ago == now - MINUTE
        Keep(t) == t >= minute_ago
    IN SelectSeq(times, Keep)

\* Mutant of Recent: nothing is pruned.
RecentUnpruned(times, now) == times

\* Mutant of Recent: the window is two minutes long.
RecentLong(times, now) ==
    LET minute_ago == now - 2 * MINUTE
        Keep(t) == t > minute_ago
    IN SelectSeq(times, Keep)

\* Mutant of Recent: the window is one clock unit short of a minute.
RecentShort(times, now) ==
    LET minute_ago == now - MINUTE + 1
        Keep(t) == t > minute_ago
    IN SelectSeq(times, Keep)

\* [t for t in self.request_times if t > minute_ago]
Recent(times, now) ==
    LET minute_ago == now - MINUTE
        Keep(t) == t > minute_ago
    IN SelectSeq(times, Keep)

\* Mutant of CheckRateLimit: the per-minute ceiling is checked before the
\* daily one.
CheckRateLimitMinuteFirst(times, daily, reset, now) ==
    LET rolled == Days(now - reset) >= 1
        daily1 == IF rolled THEN 0 ELSE daily
        reset1 == IF rolled THEN now ELSE reset
        times1 == Recent(times, now)
    IN  IF Len(times1) >= REQUESTS_PER_MINUTE
        THEN [ok |-> FALSE, error |-> MinuteMsg,
              times |-> times1, daily |-> daily1, reset |-> reset1]
        ELSE IF daily1 >= REQUESTS_PER_DAY
             THEN [ok |-> FALSE, error |-> DailyMsg,
                   times |-> times1, daily |-> daily1, reset |-> reset1]
             ELSE [ok |-> TRUE, error |-> NoError,
                   times |-> times1, daily |-> daily1, reset |-> reset1]

\* Mutant of CheckRateLimit: the daily comparison is > instead of >=.
CheckRateLimitDailyLax(times, daily, reset, now) ==
    LET rolled == Days(now - reset) >= 1
        daily1 == IF rolled THEN 0 ELSE daily
        reset1 == IF rolled THEN now ELSE reset
    IN  IF daily1 > REQUESTS_PER_DAY
        THEN [ok |-> FALSE, error |-> DailyMsg,
              times |-> times, daily |-> daily1, reset |-> reset1]
        ELSE LET times1 == Recent(times, now)
             IN IF Len(times1) >= REQUESTS_PER_MINUTE
                THEN [ok |-> FALSE, error |-> MinuteMsg,
                      times |-> times1, daily |-> daily1, reset |-> reset1]
                ELSE [ok |-> TRUE, error |-> NoError,
                      times |-> times1, daily |-> daily1, reset |-> reset1]

\* Mutant of CheckRateLimit: the call is counted before the per-minute
\* ceiling is compared, so a per-minute denial is counted too.
CheckRateLimitCounting(times, daily, reset, now) ==
    LET rolled == Days(now - reset) >= 1
        daily1 == IF rolled THEN 0 ELSE daily
        reset1 == IF rolled THEN now ELSE reset
    IN  IF daily1 >= REQUESTS_PER_DAY
        THEN [ok |-> FALSE, error |-> DailyMsg,
              times |-> times, daily |-> daily1, reset |-> reset1]
        ELSE LET times1 == Recent(times, now)
             IN IF Len(times1) >= REQUESTS_PER_MINUTE
                THEN [ok |-> FALSE, error |-> MinuteMsg,
                      times |-> times1, daily |-> daily1 + 1, reset |-> reset1]
                ELSE [ok |-> TRUE, error |-> NoError,
                      times |-> times1, daily |-> daily1, reset |-> reset1]

\* Mutant of CheckRateLimit: the per-minute comparison is > instead of >=.
CheckRateLimitLax(times, daily, reset, now) ==
    LET rolled == Days(now - reset) >= 1
        daily1 == IF rolled THEN 0 ELSE daily
        reset1 == IF rolled THEN now ELSE reset
    IN  IF daily1 >= REQUESTS_PER_DAY
        THEN [ok |-> FALSE, error |-> DailyMsg,
              times |-> times, daily |-> daily1, reset |-> reset1]
        ELSE LET times1 == Recent(times, now)
             IN IF Len(times1) > REQUESTS_PER_MINUTE
                THEN [ok |-> FALSE, error |-> MinuteMsg,
                      times |-> times1, daily |-> daily1, reset |-> reset1]
                ELSE [ok |-> TRUE, error |-> NoError,
                      times |-> times1, daily |-> daily1, reset |-> reset1]

\* GeminiService._check_rate_limit at instant now: the pair it returns and
\* the fields as it leaves them.
CheckRateLimit(times, daily, reset, now) ==
    LET rolled == Days(now - reset) >= 1
        daily1 == IF rolled THEN 0 ELSE daily
        reset1 == IF rolled THEN now ELSE reset
    IN  IF daily1 >= REQUESTS_PER_DAY
        THEN [ok |-> FALSE, error |-> DailyMsg,
              times |-> times, daily |-> daily1, reset |-> reset1]
        ELSE LET times1 == Recent(times, now)
             IN IF Len(times1) >= REQUESTS_PER_MINUTE
                THEN [ok |-> FALSE, error |-> MinuteMsg,
                      times |-> times1, daily |-> daily1, reset |-> reset1]
                ELSE [ok |-> TRUE, error |-> NoError,
                      times |-> times1, daily |-> daily1, reset |-> reset1]

\* Mutant of Reserve: a lost update, the list written back from a stale copy.
ReserveStale(times, ts) == <<ts>>

\* self.request_times.append(datetime.now())
Reserve(times, ts) == Append(times, ts)

\* Mutant of Count: the increment is lost.
CountLost(daily) == daily

\* self.daily_requests += 1
Count(daily) == daily + 1

\* Mutant of RateLimitStatus: every stored entry is counted, expired or not.
RateLimitStatusUnfiltered(times, daily, now) ==
    LET recent_requests == Len(times)
    IN [requests_per_minute_used |-> recent_requests,
        requests_per_minute_limit |-> REQUESTS_PER_MINUTE,
        daily_requests_used |-> daily,
        daily_requests_limit |-> REQUESTS_PER_DAY,
        can_make_request |-> (recent_requests < REQUESTS_PER_MINUTE
                              /\ daily < REQUESTS_PER_DAY)]

\* Mutant of RateLimitStatus: can_make_request compares with <= for <.
RateLimitStatusLenient(times, daily, now) ==
    LET recent_requests == Len(Recent(times, now))
    IN [requests_per_minute_used |-> recent_requests,
        requests_per_minute_limit |-> REQUESTS_PER_MINUTE,
        daily_requests_used |-> daily,
        daily_requests_limit |-> REQUESTS_PER_DAY,
        can_make_request |-> (recent_requests <= REQUESTS_PER_MINUTE
                              /\ daily <= REQUESTS_PER_DAY)]

\* GeminiService.get_rate_limit_status at instant now.
RateLimitStatus(times, daily, now) ==
    LET recent_requests == Len(Recent(times, now))
    IN [requests_per_minute_used |-> recent_requests,
        requests_per_minute_limit |-> REQUESTS_PER_MINUTE,
        daily_requests_used |-> daily,
        daily_requests_limit |-> REQUESTS_PER_DAY,
        can_make_request |-> (recent_requests < REQUESTS_PER_MINUTE
                              /\ daily < REQUESTS_PER_DAY)]

\* The error text of a call whose upstream generation did `up`.
UpstreamError(up) ==
    CASE up = "ok" -> NoError
      [] up = "badjson" -> ParseMsg
      [] up = "raises" -> FailedMsg

\* Mutant of StatusOf: a failed analysis is answered as an internal error.
StatusOfInternal(success) == IF success THEN 200 ELSE 500

\* HTTP status the /analyze and /analyze-urls handlers answer with, given
\* AnalysisResponse.success (main.py 113-116, 174-177).
StatusOf(success) == IF success THEN 200 ELSE 503

Init ==
    /\ clock = 0
    /\ request_times = <<>>
    /\ daily_requests = 0
    /\ last_reset = 0
    /\ pc = [c \in Callers |-> "idle"]
    /\ served = 0
    /\ peak = 0
    /\ admissions = <<>>
    /\ last = NoResp

\* Time passes.
Advance ==
    /\ \E t \in (clock + 1)..MaxClock : clock' = t
    /\ UNCHANGED <<gate, pc, served, peak, admissions, last>>

\* A request for /analyze or /analyze-urls whose images pass validation
\* reaches the server, in the lowest free slot, and waits for its turn on the
\* event loop (an /analyze request also while suspended in its two reads).
Arrive(c) ==
    /\ pc[c] = "idle"
    /\ \A d \in Callers : d < c => pc[d] # "idle"
    /\ served + InFlight(pc) < MaxRequests
    /\ pc' = [pc EXCEPT ![c] = "pending"]
    /\ peak' = IF InFlight(pc') > peak THEN InFlight(pc') ELSE peak
    /\ UNCHANGED <<clock, gate, served, admissions, last>>

\* Mutant of Rejected: the request is counted before it is validated.
RejectedCounting ==
    /\ last' = [status |-> 400, error |-> InvalidMsg, api |-> FALSE,
                now |-> clock]
    /\ request_times' = Reserve(request_times, clock)
    /\ daily_requests' = Count(daily_requests)
    /\ UNCHANGED <<clock, last_reset, pc, served, peak, admissions>>

\* POST /analyze or /analyze-urls answered 400 before the gate is reached
\* (a missing URL, a failed download, an image failing validation).  Such a
\* request touches nothing but its own response, so its wait and its run are
\* one step.
Rejected ==
    /\ last' = [status |-> 400, error |-> InvalidMsg, api |-> FALSE,
                now |-> clock]
    /\ UNCHANGED <<clock, gate, pc, served, peak, admissions>>

\* Mutant of Analyze: the generation call is made before the gate's verdict
\* is looked at.
AnalyzeOpen(c) ==
    /\ pc[c] = "pending"
    /\ LET now == clock
           chk == CheckRateLimit(request_times, daily_requests, last_reset, now)
       IN IF ~chk.ok
          THEN /\ request_times' = chk.times
               /\ daily_requests' = chk.daily
               /\ last_reset' = chk.reset
               /\ last' = [status |-> StatusOf(FALSE), error |-> chk.error,
                           api |-> TRUE, now |-> now]
               /\ UNCHANGED admissions
          ELSE \E up \in Upstream :
                  /\ request_times' = Reserve(chk.times, now)
                  /\ daily_requests' = Count(chk.daily)
                  /\ last_reset' = chk.reset
                  /\ admissions' = Append(admissions,
                        [ts |-> now, used |-> chk.daily, held |-> Len(chk.times)])
                  /\ last' = [status |-> StatusOf(up = "ok"),
                              error |-> UpstreamError(up), api |-> TRUE,
                              now |-> now]
    /\ pc' = [pc EXCEPT ![c] = "idle"]
    /\ served' = served + 1
    /\ UNCHANGED <<clock, peak>>

\* Mutant of Analyze: a call whose upstream generation fails gives its
\* reservation back.
AnalyzeRefund(c) ==
    /\ pc[c] = "pending"
    /\ LET now == clock
           chk == CheckRateLimit(request_times, daily_requests, last_reset, now)
       IN IF ~chk.ok
          THEN /\ request_times' = chk.times
               /\ daily_requests' = chk.daily
               /\ last_reset' = chk.reset
               /\ last' = [status |-> StatusOf(FALSE), error |-> chk.error,
                           api |-> FALSE, now |-> now]
               /\ UNCHANGED admissions
          ELSE \E up \in Upstream :
                  /\ request_times' = IF up = "ok"
                                       THEN Reserve(chk.times, now)
                                       ELSE chk.times
                  /\ daily_requests' = IF up = "ok"
                                        THEN Count(chk.daily)
                                        ELSE chk.daily
                  /\ last_reset' = chk.reset
                  /\ admissions' = Append(admissions,
                        [ts |-> now, used |-> chk.daily, held |-> Len(chk.times)])
                  /\ last' = [status |-> StatusOf(up = "ok"),
                              error |-> UpstreamError(up), api |-> TRUE,
                              now |-> now]
    /\ pc' = [pc EXCEPT ![c] = "idle"]
    /\ served' = served + 1
    /\ UNCHANGED <<clock, peak>>

\* Mutant of Analyze: a request that is denied, or whose upstream generation
\* fails, stays in flight and enters the gate again.
AnalyzeRetry(c) ==
    /\ pc[c] = "pending"
    /\ LET now == clock
           chk == CheckRateLimit(request_times, daily_requests, last_reset, now)
       IN IF ~chk.ok
          THEN /\ request_times' = chk.times
               /\ daily_requests' = chk.daily
               /\ last_reset' = chk.reset
               /\ last' = [status |-> StatusOf(FALSE), error |-> chk.error,
                           api |-> FALSE, now |-> now]
               /\ pc' = pc
               /\ UNCHANGED admissions
          ELSE \E up \in Upstream :
                  /\ request_times' = Reserve(chk.times, now)
                  /\ daily_requests' = Count(chk.daily)
                  /\ last_reset' = chk.reset
                  /\ admissions' = Append(admissions,
                        [ts |-> now, used |-> chk.daily, held |-> Len(chk.times)])
                  /\ last' = [status |-> StatusOf(up = "ok"),
                              error |-> UpstreamError(up), api |-> TRUE,
                              now |-> now]
                  /\ pc' = IF up = "ok" THEN [pc EXCEPT ![c] = "idle"] ELSE pc
    /\ served' = served + 1
    /\ UNCHANGED <<clock, peak>>

\* POST /analyze or /analyze-urls with valid images:
\* GeminiService.analyze_design_changes and the handler's answer.
Analyze(c) ==
    /\ pc[c] = "pending"
    /\ LET now == clock
           chk == CheckRateLimit(request_times, daily_requests, last_reset, now)
       IN IF ~chk.ok
          THEN /\ request_times' = chk.times
               /\ daily_requests' = chk.daily
               /\ last_reset' = chk.reset
               /\ last' = [status |-> StatusOf(FALSE), error |-> chk.error,
                           api |-> FALSE, now |-> now]
               /\ UNCHANGED admissions
          ELSE \E up \in Upstream :
                  /\ request_times' = Reserve(chk.times, now)
                  /\ daily_requests' = Count(chk.daily)
                  /\ last_reset' = chk.reset
                  /\ admissions' = Append(admissions,
                        [ts |-> now, used |-> chk.daily, held |-> Len(chk.times)])
                  /\ last' = [status |-> StatusOf(up = "ok"),
                              error |-> UpstreamError(up), api |-> TRUE,
                              now |-> now]
    /\ pc' = [pc EXCEPT ![c] = "idle"]
    /\ served' = served + 1
    /\ UNCHANGED <<clock, peak>>

\* Mutant of RateLimit: the read stores the pruned list.
RateLimitPruning ==
    /\ last' = [status |-> 200, error |-> NoError, api |-> FALSE,
                now |-> clock,
                body |-> RateLimitStatus(request_times, daily_requests, clock)]
    /\ request_times' = Recent(request_times, clock)
    /\ UNCHANGED <<clock, daily_requests, last_reset, pc, served, peak,
                   admissions>>

\* GET /rate-limit (no await: its wait and its run are one step).
RateLimit ==
    /\ last' = [status |-> 200, error |-> NoError, api |-> FALSE,
                now |-> clock,
                body |-> RateLimitStatus(request_times, daily_requests, clock)]
    /\ UNCHANGED <<clock, gate, pc, served, peak, admissions>>

Next ==
    \/ Advance
    \/ \E c \in Callers : Arrive(c)
    \/ Rejected
    \/ \E c \in Callers : Analyze(c)
    \/ RateLimit

Spec == Init /\ [][Next]_vars

(***************************************************************************)
(* Properties.                                                             *)
(***************************************************************************)

Range(s) == {s[i] : i \in DOMAIN s}
Least(a, b) == IF a <= b THEN a ELSE b

\* The most recent response answers an admission attempt, and how.
Admitted == last.api
DeniedDaily == ~last.api /\ last.error = DailyMsg
DeniedMinute == ~last.api /\ last.error = MinuteMsg
Attempted == Admitted \/ DeniedDaily \/ DeniedMinute

\* This step is an admission attempt.
AttemptStep == served' = served + 1

\* C1: an admission that takes the last per-minute slot, or the last daily
\* slot, is never followed by another admission at the same instant, however
\* the requests in flight are scheduled.
C1_AtomicAdmission ==
    \A i, j \in DOMAIN admissions :
        (i < j /\ admissions[i].ts = admissions[j].ts) =>
            /\ admissions[i].held # REQUESTS_PER_MINUTE - 1
            /\ admissions[i].used # REQUESTS_PER_DAY - 1

\* C1 witness: one more request than the per-minute ceiling, all in flight
\* at once; the one that found exactly one slot left was admitted and the
\* one that ran after it, at the same instant, was denied.
C1_Witness ==
    /\ peak = REQUESTS_PER_MINUTE + 1
    /\ served = REQUESTS_PER_MINUTE + 1
    /\ InFlight(pc) = 0
    /\ Len(admissions) = REQUESTS_PER_MINUTE
    /\ admissions[Len(admissions)].held = REQUESTS_PER_MINUTE - 1
    /\ DeniedMinute
    /\ last.now = admissions[Len(admissions)].ts
    /\ clock > 0

\* Every admission so far was made at the present instant.
Burst == \A i \in DOMAIN admissions : admissions[i].ts = clock

\* C2: while all attempts since construction fall on one instant, the
\* admitted ones number the per-minute ceiling or the attempts made,
\* whichever is less; the rest were denied.  (The daily ceiling is not below
\* the per-minute one.)
C2_BurstExact ==
    Burst => Len(admissions) = Least(served, REQUESTS_PER_MINUTE)

\* C2 witness: a burst of perMinuteLimit + 1 requests, all in flight at once
\* at the instant of construction, has been answered: one denial.
C2_Witness ==
    /\ clock = 0
    /\ peak = NumCallers
    /\ served = NumCallers
    /\ InFlight(pc) = 0
    /\ Len(admissions) = REQUESTS_PER_MINUTE
    /\ served - Len(admissions) = NumCallers - REQUESTS_PER_MINUTE
    /\ DeniedMinute
\* The admissions logged before the attempt that `last` answers whose
\* timestamps lie within the minute that ends at that attempt.
AdmittedBefore ==
    {i \in DOMAIN admissions :
        /\ admissions[i].ts > last.now - MINUTE
        /\ ~(Admitted /\ i = Len(admissions))}
WindowFull == Cardinality(AdmittedBefore) >= REQUESTS_PER_MINUTE

C4_Original ==
    [][(AttemptStep /\ daily_requests = REQUESTS_PER_DAY) => DeniedDaily']_vars

\* C4 (amended): an attempt made when the daily count equals the daily
\* ceiling, less than a day after windowStart, gets the daily denial,
\* whatever the per-minute window holds.
C4_DailyDominates ==
    [][(/\ AttemptStep
        /\ daily_requests = REQUESTS_PER_DAY
        /\ clock - last_reset < DAY) => DeniedDaily']_vars

\* C4 witness: a daily denial returned while the per-minute window was full
\* as well.
C4_Witness ==
    /\ DeniedDaily
    /\ daily_requests = REQUESTS_PER_DAY
    /\ WindowFull
    /\ Len(Recent(request_times, last.now)) >= REQUESTS_PER_MINUTE

\* C5 as stated: an attempt made a day or more after windowStart with the
\* daily count at its ceiling is admitted and leaves the daily count at 1.
C5_Original ==
    [][(/\ AttemptStep
        /\ clock - last_reset >= DAY
        /\ daily_requests >= REQUESTS_PER_DAY)
       => (Admitted' /\ daily_requests' = 1)]_vars

\* C5 (amended): such an attempt is admitted and leaves the daily count at 1
\* when fewer than perMinuteLimit recorded timestamps lie within the trailing
\* minute; otherwise it is denied with the per-minute reason and leaves the
\* daily count at 0.  Either way windowStart becomes now.
C5_DailyRollover ==
    [][(/\ AttemptStep
        /\ clock - last_reset >= DAY
        /\ daily_requests >= REQUESTS_PER_DAY)
       => /\ last_reset' = clock
          /\ IF Len(Recent(request_times, clock)) < REQUESTS_PER_MINUTE
             THEN Admitted' /\ daily_requests' = 1
             ELSE DeniedMinute' /\ daily_requests' = 0]_vars

\* C5 witness: the daily ceiling was reached on the first day (as many
\* admissions logged before windowStart) and the attempt that rolled the
\* day over was admitted.
C5_Witness ==
    /\ Admitted
    /\ daily_requests = 1
    /\ last_reset = last.now
    /\ last_reset >= DAY
    /\ Cardinality({i \in DOMAIN admissions : admissions[i].ts < last_reset})
         = REQUESTS_PER_DAY
\* The earliest instant in a non-empty list of instants.
Oldest(times) == CHOOSE t \in Range(times) : \A u \in Range(times) : t <= u

\* C6: when the response before was a per-minute denial, the oldest recorded
\* timestamp is by now a minute old or more and the daily count is below its
\* ceiling, the attempt is admitted.
C6_WindowSlide ==
    [][(/\ AttemptStep
        /\ DeniedMinute
        /\ request_times # <<>>
        /\ clock - Oldest(request_times) >= MINUTE
        /\ daily_requests < REQUESTS_PER_DAY) => Admitted']_vars

\* C6 witness: perMinuteLimit admissions at one instant, one denial, and an
\* admission exactly one minute after them; the daily ceiling was never in
\* reach, so the denial was the per-minute one.
C6_Witness ==
    /\ Admitted
    /\ served = REQUESTS_PER_MINUTE + 2
    /\ Len(admissions) = REQUESTS_PER_MINUTE + 1
    /\ last_reset = 0
    /\ \A i \in 1..REQUESTS_PER_MINUTE : admissions[i].ts = admissions[1].ts
    /\ last.now = admissions[1].ts + MINUTE
    /\ admissions[Len(admissions)].ts = last.now

\* C7: the daily count never exceeds the daily ceiling and the recorded
\* timestamps never number more than the per-minute ceiling.
C7_Ceilings ==
    /\ daily_requests <= REQUESTS_PER_DAY
    /\ Len(request_times) <= REQUESTS_PER_MINUTE

\* C7 witness: both ceilings reached at once by an admission.
C7_Witness ==
    /\ Admitted
    /\ daily_requests = REQUESTS_PER_DAY
    /\ Len(request_times) = REQUESTS_PER_MINUTE
    /\ Len(admissions) = REQUESTS_PER_DAY

\* The recorded timestamps all lie within the minute that ended when the
\* attempt `last` answers was made.
Fresh == \A t \in Range(request_times) : last.now - MINUTE <= t /\ t <= last.now

\* C8 as stated: after any completed check, whatever its outcome, every
\* recorded timestamp lies within [now - 60s, now].
C8_Original == Attempted => Fresh

\* C8 (amended): after a check that ends in an admission or in the
\* per-minute denial, every recorded timestamp lies within [now - 60s, now];
\* a check that ends in the daily denial leaves the list as it was.
C8_Freshness ==
    /\ []((Admitted \/ DeniedMinute) => Fresh)
    /\ [][(AttemptStep /\ DeniedDaily') => UNCHANGED request_times]_vars

\* C8 witness: a per-minute denial whose check pruned a stale entry: more
\* admissions are logged than timestamps are left.
C8_Witness ==
    /\ DeniedMinute
    /\ Fresh
    /\ Len(request_times) = REQUESTS_PER_MINUTE
    /\ Len(admissions) > REQUESTS_PER_MINUTE
    /\ admissions[1].ts <= last.now - MINUTE
\* The entries of `times` that are less than a minute old at instant now.
Younger(times, now) ==
    LET Young(t) == now - t < MINUTE IN SelectSeq(times, Young)

\* The entries of `old` whose values occur in `new`, in their order.
Surviving(old, new) ==
    LET Kept(t) == t \in Range(new) IN SelectSeq(old, Kept)

\* C9: a denied attempt does not raise the daily count and adds no recorded
\* timestamp: what is recorded after it was recorded before it, in the same
\* order.
C9_DenialReservesNothing ==
    [][(AttemptStep /\ ~Admitted') =>
          /\ daily_requests' <= daily_requests
          /\ Len(request_times') <= Len(request_times)
          /\ request_times' = Surviving(request_times, request_times')
          /\ admissions' = admissions]_vars

\* C9 witness: a per-minute denial and, before it, exactly as many
\* admissions as the daily count and the list show.
C9_Witness ==
    /\ DeniedMinute
    /\ served > Len(admissions)
    /\ last_reset = 0
    /\ daily_requests = Len(admissions)
    /\ Len(request_times) = REQUESTS_PER_MINUTE
    /\ daily_requests > REQUESTS_PER_MINUTE

\* C10 as stated: a denied attempt leaves requestTimestamps, dailyCount and
\* windowStart exactly as they were.
C10_Original ==
    [][(AttemptStep /\ ~Admitted') => UNCHANGED gate]_vars

\* C10 (amended): an attempt denied for the daily ceiling leaves the three
\* fields as they were.  An attempt denied for the per-minute ceiling leaves
\* requestTimestamps without the entries a minute old or older, and leaves
\* dailyCount and windowStart as they were unless a day or more has passed
\* since windowStart, when it leaves dailyCount 0 and windowStart now.
C10_DenialFrame ==
    [][/\ (AttemptStep /\ DeniedDaily') => UNCHANGED gate
       /\ (AttemptStep /\ DeniedMinute') =>
             /\ request_times' = Younger(request_times, clock)
             /\ IF clock - last_reset >= DAY
                THEN daily_requests' = 0 /\ last_reset' = clock
                ELSE UNCHANGED <<daily_requests, last_reset>>]_vars

\* C10 witness: a per-minute denial whose check rolled the day over and
\* pruned the list.
C10_Witness ==
    /\ DeniedMinute
    /\ last_reset = last.now
    /\ last_reset >= DAY
    /\ daily_requests = 0
    /\ Len(admissions) > Len(request_times)

\* The snapshot get_rate_limit_status returns when read at instant `now`.
Snapshot(now) == RateLimitStatus(request_times, daily_requests, now)

\* This step is an admission attempt the gate denies, and the attempt before
\* it (the most recent response, with no call of any kind since) was denied
\* too.
SecondDenial ==
    /\ AttemptStep
    /\ DeniedDaily \/ DeniedMinute
    /\ admissions' = admissions

\* C11 as stated: of two consecutive denied attempts, the snapshot read right
\* after the first equals the snapshot read right after the second, whatever
\* time passed between them.
C11_Original ==
    [][SecondDenial => Snapshot(last.now) = Snapshot(clock)']_vars

\* C11 (amended): of two consecutive denied attempts made at the same
\* instant, the snapshot read right after the first equals the snapshot read
\* right after the second.
C11_DenialsSameSnapshot ==
    [][(SecondDenial /\ last.now = clock) =>
          Snapshot(last.now) = Snapshot(clock)']_vars

\* C11 witness: a full burst followed by two denials, all at one instant.
C11_Witness ==
    /\ Burst
    /\ DeniedMinute
    /\ Len(admissions) = REQUESTS_PER_MINUTE
    /\ served = REQUESTS_PER_MINUTE + 2
    /\ Snapshot(clock).requests_per_minute_used = REQUESTS_PER_MINUTE

\* The most recent response is a GET /rate-limit snapshot.
StatusRead == "body" \in DOMAIN last

\* C12 as stated: when an admission attempt follows a status read at the same
\* instant with no call in between, the read's can_make_request is true
\* exactly when the attempt is admitted, and its daily_requests_used is the
\* daily count the attempt compared against the ceiling (the count it leaves
\* behind, less its own reservation).
C12_StatusCheckConsistency ==
    [][(AttemptStep /\ StatusRead /\ last.now = clock) =>
          /\ last.body.can_make_request <=> (admissions' # admissions)
          /\ last.body.daily_requests_used =
                daily_requests' - Len(admissions') + Len(admissions)]_vars

\* What this step reserves: 1 when it is an admission, 0 otherwise.
Reserved == Len(admissions') - Len(admissions)

\* C13: an admission attempt made a day or more after windowStart sets
\* windowStart to now and restarts dailyCount from 0 (plus its own
\* reservation when it is admitted); an attempt made earlier keeps
\* windowStart and only adds its own reservation to dailyCount; a step that
\* is not an admission attempt (a status read, the clock advancing, a request
\* arriving or being rejected) changes neither.
C13_RolloverExact ==
    [][/\ (AttemptStep /\ clock - last_reset >= DAY) =>
             (last_reset' = clock /\ daily_requests' = Reserved)
       /\ (AttemptStep /\ clock - last_reset < DAY) =>
             (last_reset' = last_reset /\ daily_requests' = daily_requests + Reserved)
       /\ ~AttemptStep => UNCHANGED <<daily_requests, last_reset>>]_vars

\* C13 witness: an attempt a day or more after windowStart was admitted
\* while the earlier period's count was not exhausted, and started the new
\* period at 1.
C13_Witness ==
    /\ Admitted
    /\ last_reset = last.now
    /\ last_reset >= DAY
    /\ daily_requests = 1
    /\ Len(admissions) > 1
    /\ Len(admissions) <= REQUESTS_PER_DAY

\* This step is a GET /rate-limit read.
StatusStep ==
    /\ "body" \in DOMAIN last'
    /\ last'.now = clock
    /\ UNCHANGED <<clock, pc, served, admissions>>

\* C14 as stated: after a status read the stored list holds no entry older
\* than now - 60s.
C14_Original ==
    StatusRead => \A t \in Range(request_times) : t >= last.now - MINUTE

\* C14 (amended): a status read counts, as requests_per_minute_used, the
\* stored entries less than a minute old, which are those step 3 of the
\* admission check keeps, and leaves the stored list as it was, expired
\* entries included.
C14_StatusCountsWithoutPruning ==
    [][StatusStep =>
          /\ request_times' = request_times
          /\ last'.body.requests_per_minute_used =
                Cardinality({i \in DOMAIN request_times :
                                clock - request_times[i] < MINUTE})]_vars

\* C14 witness: a status read that counted fewer entries than the list it
\* left behind holds.
C14_Witness ==
    /\ StatusRead
    /\ last.body.requests_per_minute_used < Len(request_times)
    /\ \E t \in Range(request_times) : t < last.now - MINUTE

\* C15: a status read leaves requestTimestamps, dailyCount and windowStart
\* as they were, and every step that changes one of them is an admission
\* attempt.
C15_StatusReadOnly ==
    [][/\ StatusStep => UNCHANGED gate
       /\ (gate' # gate) => AttemptStep]_vars

\* C15 witness: a status read made when an attempt would have changed all
\* three fields: an expired entry is stored, the daily count is positive and
\* a day or more has passed since windowStart.
C15_Witness ==
    /\ StatusRead
    /\ last.now = clock
    /\ clock - last_reset >= DAY
    /\ daily_requests > 0
    /\ request_times # <<>>
    /\ last.body.requests_per_minute_used = 0

\* The admissions whose recorded instant lies in the minute ending at now.
AdmittedWithin(now) ==
    {i \in DOMAIN admissions :
        now - MINUTE < admissions[i].ts /\ admissions[i].ts <= now}

\* C16: the snapshot a status read returns carries the two configured limits
\* (REQUESTS_PER_MINUTE, 15 in config.py, and REQUESTS_PER_DAY, 1500 in
\* config.py), the number of admissions recorded within the trailing minute,
\* the stored daily count, and can_make_request true exactly when both used
\* figures are below their limits.
C16_SnapshotFields ==
    StatusRead =>
        /\ last.status = 200
        /\ DOMAIN last.body =
              {"requests_per_minute_used", "requests_per_minute_limit",
               "daily_requests_used", "daily_requests_limit",
               "can_make_request"}
        /\ last.body.requests_per_minute_limit = REQUESTS_PER_MINUTE
        /\ last.body.daily_requests_limit = REQUESTS_PER_DAY
        /\ last.body.requests_per_minute_used =
              Cardinality(AdmittedWithin(last.now))
        /\ last.body.daily_requests_used = daily_requests
        /\ last.body.can_make_request <=>
              /\ last.body.requests_per_minute_used < REQUESTS_PER_MINUTE
              /\ last.body.daily_requests_used < REQUESTS_PER_DAY

\* C16 witness: a status read that found one admission inside the trailing
\* minute and one outside it, with the daily count at its ceiling.
C16_Witness ==
    /\ StatusRead
    /\ last.body.requests_per_minute_used = 1
    /\ Cardinality(AdmittedWithin(last.now)) = 1
    /\ Len(request_times) > 1
    /\ last.body.daily_requests_used = REQUESTS_PER_DAY
    /\ ~last.body.can_make_request

\* This step's request reached the external generation API.
Generated == last'.api

\* C17: in every admission attempt, the external generation API is invoked
\* only when the gate admitted the request at that attempt, and a request the
\* gate denies, with either reason, does not reach the API.
C17_FailClosed ==
    [][AttemptStep =>
          /\ Generated => /\ CheckRateLimit(request_times, daily_requests,
                                            last_reset, clock).ok
                          /\ Len(admissions') = Len(admissions) + 1
                          /\ daily_requests' > 0
                          /\ request_times' # <<>>
                          /\ request_times'[Len(request_times')] = clock
          /\ last'.error \in {DailyMsg, MinuteMsg} => ~Generated]_vars

\* C17 witness: after the clock moved, a request was denied for the
\* per-minute ceiling and answered without reaching the API.
C17_Witness ==
    /\ ~last.api
    /\ last.error = MinuteMsg
    /\ last.status = 503
    /\ Len(admissions) >= REQUESTS_PER_MINUTE
    /\ served > Len(admissions)
    /\ clock > 0

\* The reason the gate gives an attempt made now: the daily reason when the
\* daily count, after any rollover, is at its ceiling, else the per-minute
\* reason when the trailing minute is full.
GateReason ==
    IF (IF clock - last_reset >= DAY THEN 0 ELSE daily_requests)
          >= REQUESTS_PER_DAY
    THEN DailyMsg
    ELSE IF Cardinality({i \in DOMAIN request_times :
                            clock - request_times[i] < MINUTE})
               >= REQUESTS_PER_MINUTE
         THEN MinuteMsg
         ELSE NoError

\* C18: a request that passed validation and that the gate denies is
\* answered with HTTP 503 carrying the gate's reason for that denial
\* unchanged, never with 200 or 500.
C18_DeniedIs503 ==
    [][(AttemptStep /\ admissions' = admissions) =>
          /\ last'.status = 503
          /\ last'.error = GateReason
          /\ last'.error \in {DailyMsg, MinuteMsg}]_vars

\* C18 witness: a daily denial answered 503 with the daily reason, after the
\* whole daily allowance was admitted.
C18_Witness ==
    /\ last.status = 503
    /\ last.error = DailyMsg
    /\ ~last.api
    /\ Len(admissions) = REQUESTS_PER_DAY
    /\ served = REQUESTS_PER_DAY + 1

\* Every admission so far was made at instant t0.
AllAt(t0) == \A i \in DOMAIN admissions : admissions[i].ts = t0

\* C19: from a fresh gate, the first REQUESTS_PER_MINUTE calls made at one
\* instant are all admitted, requests_per_minute_used reading k after the
\* k-th; the next call at that instant is denied with the per-minute reason;
\* and the call made one clock unit more than a minute later is admitted,
\* after which requests_per_minute_used reads 1.
C19_WorkedExample ==
    /\ []((Burst /\ served <= REQUESTS_PER_MINUTE) =>
             /\ Len(admissions) = served
             /\ Snapshot(clock).requests_per_minute_used = served)
    /\ [][(/\ AttemptStep
           /\ served = REQUESTS_PER_MINUTE
           /\ Len(admissions) = REQUESTS_PER_MINUTE
           /\ AllAt(clock)) =>
             /\ admissions' = admissions
             /\ last'.error = MinuteMsg
             /\ Snapshot(clock)'.requests_per_minute_used
                   = REQUESTS_PER_MINUTE]_vars
    /\ [][(/\ AttemptStep
           /\ served = REQUESTS_PER_MINUTE + 1
           /\ Len(admissions) = REQUESTS_PER_MINUTE
           /\ AllAt(clock - (MINUTE + 1))) =>
             /\ Len(admissions') = REQUESTS_PER_MINUTE + 1
             /\ last'.api
             /\ Snapshot(clock)'.requests_per_minute_used = 1]_vars

\* C19 witness: the example's last state: a full burst, one denial, and one
\* more admission a minute and one clock unit after the burst.
C19_Witness ==
    /\ served = REQUESTS_PER_MINUTE + 2
    /\ Len(admissions) = REQUESTS_PER_MINUTE + 1
    /\ \A i \in 1..REQUESTS_PER_MINUTE :
          admissions[i].ts = clock - (MINUTE + 1)
    /\ admissions[REQUESTS_PER_MINUTE + 1].ts = clock
    /\ admissions[REQUESTS_PER_MINUTE + 1].held = 0
    /\ Admitted
    /\ Snapshot(clock).requests_per_minute_used = 1

\* The instants the model's clock can show.
Instants == 0..MaxClock

\* C20: at every instant t, the admissions recorded in the trailing minute
\* (t - MINUTE, t] number at most REQUESTS_PER_MINUTE, over every history of
\* attempts; and the admission that comes REQUESTS_PER_MINUTE or more
\* places after another in the history, so that it needed that one's slot,
\* was made a full minute or more after it.
C20_SlidingWindow ==
    /\ \A t \in Instants :
          Cardinality({i \in DOMAIN admissions :
                          t - MINUTE < admissions[i].ts /\ admissions[i].ts <= t})
             <= REQUESTS_PER_MINUTE
    /\ \A i, j \in DOMAIN admissions :
          (i + REQUESTS_PER_MINUTE <= j) =>
             admissions[j].ts - admissions[i].ts >= MINUTE

\* C20 witness: three admissions at three different instants, the third made
\* exactly one minute after the first, into the slot the first had held, with
\* the second still counted: no fixed window boundary separates them.
C20_Witness ==
    /\ Len(admissions) >= REQUESTS_PER_MINUTE + 1
    /\ LET n == Len(admissions)
       IN /\ admissions[n].ts = admissions[n - REQUESTS_PER_MINUTE].ts + MINUTE
          /\ admissions[n].held = REQUESTS_PER_MINUTE - 1
          /\ admissions[n - 1].ts > admissions[n - REQUESTS_PER_MINUTE].ts
          /\ admissions[n - 1].ts < admissions[n].ts

\* The admissions made at or after the current windowStart.
AdmittedSinceReset ==
    {i \in DOMAIN admissions : admissions[i].ts >= last_reset}

\* C21: in every reachable state dailyCount is the number of admissions made
\* at or after the current windowStart: since the most recent rollover, or
\* since startup when there has been none.
C21_CounterMeaning ==
    daily_requests = Cardinality(AdmittedSinceReset)

\* C21 witness: a rollover has happened, admissions were made both before
\* it and after it, and the count is that of the later ones alone.
C21_Witness ==
    /\ last_reset >= DAY
    /\ daily_requests >= 2
    /\ Len(admissions) > daily_requests
    /\ \E i \in DOMAIN admissions : admissions[i].ts < last_reset

\* This step is an admitted attempt whose upstream generation failed: it
\* raised, or returned text that is not JSON.
UpstreamFailedStep ==
    /\ AttemptStep
    /\ Len(admissions') = Len(admissions) + 1
    /\ last'.error \in {ParseMsg, FailedMsg}

\* C22: an admitted attempt leaves its timestamp appended to the entries
\* less than a minute old and the daily count (restarted from 0 when the
\* day rolled over) one higher, whether its upstream call succeeds, raises
\* or returns text that is not JSON; a failed call is answered with the
\* reservation still recorded.
C22_NoRefund ==
    [][(AttemptStep /\ Len(admissions') = Len(admissions) + 1) =>
          /\ last'.api
          /\ last'.error \in {NoError, ParseMsg, FailedMsg}
          /\ request_times' = Append(Younger(request_times, clock), clock)
          /\ daily_requests' =
                (IF clock - last_reset >= DAY THEN 0 ELSE daily_requests) + 1
          /\ UpstreamFailedStep => last'.status = 503]_vars

\* C22 witness: an admitted call whose upstream generation raised, answered
\* 503, with its timestamp last in the list and its increment in the count.
C22_Witness ==
    /\ last.api
    /\ last.error = FailedMsg
    /\ last.status = 503
    /\ request_times # <<>>
    /\ request_times[Len(request_times)] = last.now
    /\ daily_requests = Cardinality(AdmittedSinceReset)
    /\ daily_requests >= 2

\* C23: every admission attempt ends the request that made it: the request
\* leaves the set of requests in flight at that step, whether it was
\* admitted, denied, or failed upstream, and the step makes at most one
\* external generation call; the gate changes only in such a step, and the
\* external calls made never outnumber the requests answered.
C23_NoRetry ==
    /\ [][AttemptStep =>
             /\ InFlight(pc') = InFlight(pc) - 1
             /\ \E c \in Callers :
                   /\ pc[c] = "pending"
                   /\ pc' = [pc EXCEPT ![c] = "idle"]
             /\ Len(admissions') \in {Len(admissions), Len(admissions) + 1}
             /\ last'.api <=> (Len(admissions') = Len(admissions) + 1)]_vars
    /\ [][(gate' # gate \/ admissions' # admissions) =>
             InFlight(pc') = InFlight(pc) - 1]_vars
    /\ [](Len(admissions) <= served)

\* C23 witness: one request was denied and a later one failed upstream; both
\* were answered, no request is in flight, and the external calls made are
\* one fewer than the requests answered.
C23_Witness ==
    /\ last.api
    /\ last.error = ParseMsg
    /\ last.status = 503
    /\ InFlight(pc) = 0
    /\ served = Len(admissions) + 1
    /\ served > REQUESTS_PER_MINUTE + 1

\* C24: when an admission attempt follows, at the same instant and with no
\* other attempt in between, a status read that reported can_make_request
\* true, the attempt is admitted.
C24_PositiveStatusHonoured ==
    [][(/\ AttemptStep
        /\ StatusRead
        /\ last.now = clock
        /\ last.body.can_make_request) =>
          /\ Len(admissions') = Len(admissions) + 1
          /\ last'.api
          /\ last'.error \notin {DailyMsg, MinuteMsg}]_vars

\* C24 witness: a status read has just reported can_make_request true with
\* one per-minute slot and one daily slot left, and a request in flight is
\* about to make its attempt at that instant.
C24_Witness ==
    /\ StatusRead
    /\ last.now = clock
    /\ last.body.can_make_request
    /\ last.body.requests_per_minute_used = REQUESTS_PER_MINUTE - 1
    /\ last.body.daily_requests_used = REQUESTS_PER_DAY - 1
    /\ InFlight(pc) > 0

\* This step answers a request 400 before it reaches the gate.
RejectedStep ==
    /\ last'.status = 400
    /\ last'.now = clock
    /\ UNCHANGED <<clock, pc, served>>

\* C25: a request answered 400 before the gate leaves requestTimestamps,
\* dailyCount and windowStart as they were, reaches neither the gate nor the
\* external API, and so takes no per-minute or daily slot: the snapshot
\* read at that instant is the same before and after it.
C25_RejectionFrame ==
    [][RejectedStep =>
          /\ UNCHANGED gate
          /\ UNCHANGED admissions
          /\ ~last'.api
          /\ last'.error = InvalidMsg
          /\ Snapshot(clock)' = Snapshot(clock)]_vars

\* C25 witness: a request was answered 400 when one per-minute slot and one
\* daily slot were left, and both are still left.
C25_Witness ==
    /\ last.status = 400
    /\ last.now = clock
    /\ Snapshot(clock).requests_per_minute_used = REQUESTS_PER_MINUTE - 1
    /\ daily_requests = REQUESTS_PER_DAY - 1
    /\ Len(admissions) = REQUESTS_PER_DAY - 1
    /\ Snapshot(clock).can_make_request

\* The instants a day or more, up to a day and a minute, after now.
ADayOn == (clock + DAY)..(clock + DAY + MINUTE)

\* C26: in every reachable state of the gate, an attempt made a day or more
\* later, with nothing admitted in between, would be admitted; and every
\* attempt actually made a day or more after the latest admission is
\* admitted, finding the window empty and the daily count at 0.
C26_NoLockOut ==
    /\ [](\A t \in ADayOn :
             CheckRateLimit(request_times, daily_requests, last_reset, t).ok)
    /\ [][(/\ AttemptStep
           /\ admissions # <<>>
           /\ \A i \in DOMAIN admissions : clock - admissions[i].ts >= DAY) =>
             /\ Len(admissions') = Len(admissions) + 1
             /\ last'.api
             /\ admissions'[Len(admissions')].held = 0
             /\ admissions'[Len(admissions')].used = 0]_vars

\* C26 witness: the per-minute window was filled and an attempt denied; a
\* day or more after the latest admission the next attempt was admitted into
\* an empty window with the daily count at 0.
C26_Witness ==
    /\ Admitted
    /\ Len(admissions) = REQUESTS_PER_MINUTE + 1
    /\ served >= REQUESTS_PER_MINUTE + 2
    /\ LET n == Len(admissions)
       IN /\ admissions[n].ts - admissions[n - 1].ts >= DAY
          /\ admissions[n].ts = last.now
          /\ admissions[n].held = 0
          /\ admissions[n].used = 0

\* C27: an entry exactly a minute old is expired for the check and for the
\* status read alike: an attempt that gets as far as pruning leaves no entry
\* a minute old or older in the list; a status read counts the entries
\* strictly less than a minute old and no others; and when
\* REQUESTS_PER_MINUTE admissions were recorded at one instant, the attempt
\* made exactly a minute later is admitted into an empty window.
C27_BoundaryExpired ==
    /\ [][(AttemptStep /\ last'.error # DailyMsg) =>
             \A t \in Range(request_times') : clock - t < MINUTE]_vars
    /\ [][StatusStep =>
             /\ last'.body.requests_per_minute_used =
                   Len(Younger(request_times, clock))
             /\ last'.body.requests_per_minute_used =
                   Len(CheckRateLimit(request_times, 0, clock, clock).times)]_vars
    /\ [][(/\ AttemptStep
           /\ Len(admissions) = REQUESTS_PER_MINUTE
           /\ AllAt(clock - MINUTE)) =>
             /\ Len(admissions') = REQUESTS_PER_MINUTE + 1
             /\ request_times' = <<clock>>]_vars

\* C27 witness: REQUESTS_PER_MINUTE admissions at one instant, and the next
\* admitted exactly a minute later, finding nothing left in the window.
C27_Witness ==
    /\ Admitted
    /\ Len(admissions) = REQUESTS_PER_MINUTE + 1
    /\ \A i \in 1..REQUESTS_PER_MINUTE : admissions[i].ts = clock - MINUTE
    /\ admissions[REQUESTS_PER_MINUTE + 1].ts = clock
    /\ admissions[REQUESTS_PER_MINUTE + 1].held = 0
    /\ request_times = <<clock>>
    /\ Snapshot(clock).requests_per_minute_used = 1

====
